---- MODULE Spec2Model ----
(***************************************************************************)
(* FNOL claims processing pipeline of src/fnol_processor.py:               *)
(* FieldExtractor.extract -> FieldValidator.validate ->                    *)
(* ClaimClassifier.classify -> RoutingEngine.route ->                      *)
(* FNOLProcessor._generate_reasoning -> result.                            *)
(*                                                                         *)
(* Python strings are modelled as sequences of one-character strings, so   *)
(* that strip(), lower(), the `in` substring test, the e-mail regular      *)
(* expression, strptime and float() are computed character by character.   *)
(* Python values are tagged records: absent key, str, int, float, list.    *)
(* Finite floats are counted in hundredths (c = 100 * value).              *)
(***************************************************************************)
EXTENDS Integers, Sequences, FiniteSets, TLC

VARIABLES fnol_data, pc, extracted_fields, missing_fields, validation_errors,
          claim_type, routing_decision, risk_flags, reasoning, result, raised

vars == <<fnol_data, pc, extracted_fields, missing_fields, validation_errors,
          claim_type, routing_decision, risk_flags, reasoning, result, raised>>

(***************************************************************************)
(* Bounds of the explored inputs.                                          *)
(***************************************************************************)
\* Longest description, in words, that Init builds.
MaxWords == 2

\* Number of clock readings datetime.now() may return.
MaxClock == 2

(***************************************************************************)
(* Characters and strings.                                                 *)
(***************************************************************************)
Lowercase == {"a","b","c","d","e","f","g","h","i","j","k","l","m",
              "n","o","p","q","r","s","t","u","v","w","x","y","z"}

Uppercase == {"A","B","C","D","E","F","G","H","I","J","K","L","M",
              "N","O","P","Q","R","S","T","U","V","W","X","Y","Z"}

Digits == {"0","1","2","3","4","5","6","7","8","9"}

Letters == Lowercase \cup Uppercase

\* The characters str.strip() removes (the ASCII ones the inputs use).
Whitespace == {" ", "\t", "\n", "\r"}

UpperSeq == <<"A","B","C","D","E","F","G","H","I","J","K","L","M","N","O","P","Q","R","S","T","U","V","W","X","Y","Z">>

LowerSeq == <<"a","b","c","d","e","f","g","h","i","j","k","l","m","n","o","p","q","r","s","t","u","v","w","x","y","z">>

\* str.lower() on one character.
LowerChar(c) ==
  IF c \in Uppercase
    THEN LowerSeq[CHOOSE i \in 1..26 : UpperSeq[i] = c]
    ELSE c

\* str.lower()
Lower(s) == [i \in 1..Len(s) |-> LowerChar(s[i])]

\* str.strip(): drop leading and trailing whitespace.
Strip(s) ==
  LET keep == {i \in 1..Len(s) : s[i] \notin Whitespace}
  IN IF keep = {} THEN <<>>
     ELSE LET lo == CHOOSE i \in keep : \A j \in keep : i <= j
              hi == CHOOSE i \in keep : \A j \in keep : j <= i
          IN SubSeq(s, lo, hi)

\* Python `sub in s` for strings: sub occurs as a contiguous substring.
Contains(sub, s) ==
  \E i \in 1..(Len(s) - Len(sub) + 1) : SubSeq(s, i, i + Len(sub) - 1) = sub

\* sep.join(list) for a list of strings.
RECURSIVE Join(_, _)
Join(sep, list) ==
  IF list = <<>> THEN <<>>
  ELSE IF Len(list) = 1 THEN list[1]
  ELSE list[1] \o sep \o Join(sep, Tail(list))

DigitSeq == <<"0","1","2","3","4","5","6","7","8","9">>

\* int() of one decimal digit.
DigitVal(c) == (CHOOSE i \in 1..10 : DigitSeq[i] = c) - 1

\* int() of a non-empty string of decimal digits.
RECURSIVE NumVal(_)
NumVal(s) ==
  IF Len(s) = 0 THEN 0
  ELSE 10 * NumVal(SubSeq(s, 1, Len(s) - 1)) + DigitVal(s[Len(s)])

AllIn(s, set) == \A i \in 1..Len(s) : s[i] \in set

\* str() of a non-negative int.
RECURSIVE IntStr(_)
IntStr(n) ==
  IF n < 10 THEN <<DigitSeq[n + 1]>>
  ELSE IntStr(n \div 10) \o <<DigitSeq[(n % 10) + 1]>>

(***************************************************************************)
(* Python values.                                                          *)
(***************************************************************************)
Absent == [t |-> "absent"]

PyStr(s) == [t |-> "str", s |-> s]

PyInt(n) == [t |-> "int", v |-> n]

\* A Python int too large for a double (abs value above 1.8e308).
BigInt == [t |-> "bigint"]

\* A finite float, value c / 100.
PyFloat(c) == [t |-> "float", c |-> c]

NaN == [t |-> "nan"]

Inf == [t |-> "inf"]

NegInf == [t |-> "ninf"]

PyList(l) == [t |-> "list", l |-> l]

\* dict.get(key, default)
Get(d, key, default) == IF d[key].t = "absent" THEN default ELSE d[key]

\* Python truth value of a value (`not v` is its negation).
Truthy(v) ==
  CASE v.t = "str" -> v.s # <<>>
    [] v.t = "int" -> v.v # 0
    [] v.t = "bigint" -> TRUE
    [] v.t = "float" -> v.c # 0
    [] v.t \in {"nan", "inf", "ninf"} -> TRUE
    [] v.t = "list" -> v.l # <<>>
    [] OTHER -> FALSE

\* str(v).strip() == '' : only a blank string renders as blank text; the text
\* of a number or of a list always has a non-space character.
StrIsBlank(v) == IF v.t = "str" THEN Strip(v.s) = <<>> ELSE FALSE

(***************************************************************************)
(* float(): numeric coercion, used by the validator and by the router.     *)
(* The result is a float value or the exception float() raises.            *)
(***************************************************************************)
ValueError == [t |-> "ValueError"]

TypeError == [t |-> "TypeError"]

OverflowError == [t |-> "OverflowError"]

IsException(f) == f.t \in {"ValueError", "TypeError", "OverflowError"}

\* The unsigned part of a float literal: nan, inf, infinity (any case), or
\* decimal digits with an optional point.  Fractions are read to hundredths,
\* the resolution of the model's floats; exponent and underscore forms are
\* not produced by the inputs.
ParseUnsigned(s) ==
  LET low == Lower(s)
      dots == {i \in 1..Len(s) : s[i] = "."}
  IN IF low = <<"n","a","n">> THEN NaN
     ELSE IF low = <<"i","n","f">> \/ low = <<"i","n","f","i","n","i","t","y">> THEN Inf
     ELSE IF s = <<>> \/ ~AllIn(s, Digits \cup {"."}) \/ Cardinality(dots) > 1
       THEN ValueError
     ELSE IF dots = {}
       THEN PyFloat(100 * NumVal(s))
     ELSE LET d == CHOOSE i \in dots : TRUE
              whole == SubSeq(s, 1, d - 1)
              frac == SubSeq(s, d + 1, Len(s))
          IN IF (whole = <<>> /\ frac = <<>>) \/ Len(frac) > 2 THEN ValueError
             ELSE PyFloat(100 * NumVal(whole)
                          + (IF Len(frac) = 1 THEN 10 * NumVal(frac) ELSE NumVal(frac)))

\* -f
Negate(f) ==
  CASE f.t = "float" -> PyFloat(0 - f.c)
    [] f.t = "inf" -> NegInf
    [] OTHER -> f

\* float(str): surrounding whitespace is ignored, one sign is allowed.
ParseFloat(str) ==
  LET s == Strip(str)
  IN IF s = <<>> THEN ValueError
     ELSE IF s[1] = "-" THEN Negate(ParseUnsigned(Tail(s)))
     ELSE IF s[1] = "+" THEN ParseUnsigned(Tail(s))
     ELSE ParseUnsigned(s)

\* float(v)
FloatOf(v) ==
  CASE v.t = "int" -> PyFloat(100 * v.v)
    [] v.t = "bigint" -> OverflowError
    [] v.t \in {"float", "nan", "inf", "ninf"} -> v
    [] v.t = "str" -> ParseFloat(v.s)
    [] OTHER -> TypeError

\* f < 0 for a float f (False for nan).
FloatNegative(f) == (f.t = "float" /\ f.c < 0) \/ f.t = "ninf"

\* f > n for a float f and an int n (False for nan).
FloatGreater(f, n) == (f.t = "float" /\ f.c > 100 * n) \/ f.t = "inf"

\* str(f) of a float f, as an f-string renders it.
FloatRepr(f) ==
  CASE f.t = "nan" -> <<"n","a","n">>
    [] f.t = "inf" -> <<"i","n","f">>
    [] f.t = "ninf" -> <<"-","i","n","f">>
    [] OTHER ->
       LET a == IF f.c < 0 THEN 0 - f.c ELSE f.c
           whole == IntStr(a \div 100)
           h == a % 100
           frac == IF h % 10 = 0 THEN IntStr(h \div 10)
                   ELSE IF h < 10 THEN <<"0">> \o IntStr(h)
                   ELSE IntStr(h)
       IN (IF f.c < 0 THEN <<"-">> ELSE <<>>) \o whole \o <<".">> \o frac

(***************************************************************************)
(* FieldValidator._is_valid_email and FieldValidator._is_valid_date.       *)
(***************************************************************************)
\* [a-zA-Z0-9._%+-]
EmailLocalChars == Letters \cup Digits \cup {".", "_", "%", "+", "-"}

\* [a-zA-Z0-9.-]
EmailDomainChars == Letters \cup Digits \cup {".", "-"}

\* re.match(r'^[a-zA-Z0-9._%+-]+@[a-zA-Z0-9.-]+\.[a-zA-Z]{2,}$', email):
\* some '@' at position a and some '.' at position d split the text into a
\* non-empty local part, a non-empty domain and a top-level part of at least
\* two letters.  (The text was stripped, so '$' can only match at its end.)
_is_valid_email(email) ==
  \E a \in 1..Len(email) : \E d \in (a + 1)..Len(email) :
     /\ email[a] = "@"
     /\ email[d] = "."
     /\ a > 1
     /\ AllIn(SubSeq(email, 1, a - 1), EmailLocalChars)
     /\ d > a + 1
     /\ AllIn(SubSeq(email, a + 1, d - 1), EmailDomainChars)
     /\ Len(email) - d >= 2
     /\ AllIn(SubSeq(email, d + 1, Len(email)), Letters)

\* %Y of strptime: exactly four digits.
MatchesYear(s) == Len(s) = 4 /\ AllIn(s, Digits)

\* %m of strptime: 1[0-2] | 0[1-9] | [1-9]
MatchesMonth(s) ==
  /\ Len(s) \in {1, 2}
  /\ AllIn(s, Digits)
  /\ NumVal(s) \in 1..12

\* %d of strptime: 3[01] | [12]\d | 0[1-9] | [1-9] | a space and [1-9]
MatchesDay(s) ==
  \/ /\ Len(s) \in {1, 2}
     /\ AllIn(s, Digits)
     /\ NumVal(s) \in 1..31
  \/ /\ Len(s) = 2
     /\ s[1] = " "
     /\ s[2] \in Digits \ {"0"}

\* calendar: the number of days of a month.
DaysInMonth(y, m) ==
  IF m = 2
    THEN (IF (y % 4 = 0 /\ y % 100 # 0) \/ y % 400 = 0 THEN 29 ELSE 28)
    ELSE IF m \in {4, 6, 9, 11} THEN 30 ELSE 31

\* datetime(year, month, day) accepts the date (MINYEAR is 1).
DateExists(y, m, d) == y >= 1 /\ m \in 1..12 /\ d \in 1..DaysInMonth(y, m)

\* The value of a day field (a leading space is skipped).
DayVal(s) == IF s[1] = " " THEN NumVal(Tail(s)) ELSE NumVal(s)

\* datetime.strptime(date_str, fmt) succeeds, for a format of three fields
\* joined by sep, year first (%Y sep %m sep %d) or day first (%d sep %m sep %Y).
Strptime(date_str, sep, yearFirst) ==
  \E i \in 1..Len(date_str) : \E j \in (i + 1)..Len(date_str) :
     /\ date_str[i] = sep
     /\ date_str[j] = sep
     /\ LET a == SubSeq(date_str, 1, i - 1)
            b == SubSeq(date_str, i + 1, j - 1)
            c == SubSeq(date_str, j + 1, Len(date_str))
        IN IF yearFirst
             THEN /\ MatchesYear(a) /\ MatchesMonth(b) /\ MatchesDay(c)
                  /\ DateExists(NumVal(a), NumVal(b), DayVal(c))
             ELSE /\ MatchesDay(a) /\ MatchesMonth(b) /\ MatchesYear(c)
                  /\ DateExists(NumVal(c), NumVal(b), DayVal(a))

\* formats = ['%Y-%m-%d', '%d-%m-%Y', '%d/%m/%Y', '%Y/%m/%d']; any one parses.
_is_valid_date(date_str) ==
  \/ Strptime(date_str, "-", TRUE)
  \/ Strptime(date_str, "-", FALSE)
  \/ Strptime(date_str, "/", FALSE)
  \/ Strptime(date_str, "/", TRUE)

(***************************************************************************)
(* FieldExtractor.extract                                                  *)
(***************************************************************************)
\* The keys extract reads with .get(key, default).strip(), in code order.
StringKeys == <<"policy_number", "carrier", "line_of_business", "effective_date",
                "incident_date", "incident_time", "location", "description",
                "insured_name", "contact_number", "contact_email",
                "asset_type", "asset_id", "comments">>

\* The 16 recognized keys of the input record.
Keys == {StringKeys[i] : i \in 1..Len(StringKeys)} \cup {"estimated_damage", "attachments"}

\* The default extract passes to .get() for a string key.
StringDefault(key) == IF key = "line_of_business" THEN <<"g","e","n","e","r","a","l">> ELSE <<>>

\* .strip() exists only on str: on an int, a float or a list the attribute
\* lookup raises AttributeError.
ExtractRaises(d) ==
  \E i \in 1..Len(StringKeys) : Get(d, StringKeys[i], PyStr(<<>>)).t # "str"

\* extract without the isinstance test on attachments.
extractAnyAttachments(d) ==
  [key \in Keys |->
     IF key = "estimated_damage" THEN Get(d, key, PyInt(0))
     ELSE IF key = "attachments" THEN Get(d, key, PyList(<<>>))
     ELSE PyStr(Strip(Get(d, key, PyStr(StringDefault(key))).s))]

\* The dictionary extract returns (when no .strip() raises).
extract(d) ==
  [key \in Keys |->
     IF key = "estimated_damage" THEN Get(d, key, PyInt(0))
     ELSE IF key = "attachments"
       THEN (IF d[key].t = "list" THEN d[key] ELSE PyList(<<>>))
     ELSE PyStr(Strip(Get(d, key, PyStr(StringDefault(key))).s))]

(***************************************************************************)
(* FieldValidator.validate                                                 *)
(***************************************************************************)
MANDATORY_FIELDS == <<"policy_number", "carrier", "incident_date", "location",
                      "insured_name", "contact_email", "description",
                      "estimated_damage">>

\* IsMissing without the falsy test: only blank text counts as missing.
IsMissingBlankOnly(e, field) == StrIsBlank(e[field])

\* not extracted_fields.get(field) or str(extracted_fields.get(field)).strip() == ''
IsMissing(e, field) == ~Truthy(e[field]) \/ StrIsBlank(e[field])

\* The mandatory fields found missing, in declaration order.
RECURSIVE MissingFrom(_, _)
MissingFrom(e, i) ==
  IF i > Len(MANDATORY_FIELDS) THEN <<>>
  ELSE (IF IsMissing(e, MANDATORY_FIELDS[i]) THEN <<MANDATORY_FIELDS[i]>> ELSE <<>>)
       \o MissingFrom(e, i + 1)

\* if email and not self._is_valid_email(email)
EmailErrors(e) ==
  LET email == e["contact_email"].s
  IN IF email # <<>> /\ ~_is_valid_email(email)
       THEN << <<"I","n","v","a","l","i","d"," ","e","m","a","i","l"," ","f","o","r","m","a","t",":"," ">> \o email >>
       ELSE <<>>

\* DamageErrors with an except clause that records nothing.
DamageErrorsSilentExcept(e) ==
  LET damage == FloatOf(e["estimated_damage"])
  IN IF ~IsException(damage) /\ FloatNegative(damage)
       THEN << <<"E","s","t","i","m","a","t","e","d"," ","d","a","m","a","g","e"," ","c","a","n","n","o","t"," ","b","e"," ","n","e","g","a","t","i","v","e">> >>
       ELSE <<>>

\* try: damage = float(...); if damage < 0 ... except (ValueError, TypeError)
DamageErrors(e) ==
  LET damage == FloatOf(e["estimated_damage"])
  IN IF damage.t \in {"ValueError", "TypeError"}
       THEN << <<"E","s","t","i","m","a","t","e","d"," ","d","a","m","a","g","e"," ","m","u","s","t"," ","b","e"," ","a"," ","n","u","m","b","e","r">> >>
     ELSE IF FloatNegative(damage)
       THEN << <<"E","s","t","i","m","a","t","e","d"," ","d","a","m","a","g","e"," ","c","a","n","n","o","t"," ","b","e"," ","n","e","g","a","t","i","v","e">> >>
     ELSE <<>>

\* if incident_date and not self._is_valid_date(incident_date)
DateErrors(e) ==
  LET incident_date == e["incident_date"].s
  IN IF incident_date # <<>> /\ ~_is_valid_date(incident_date)
       THEN << <<"I","n","v","a","l","i","d"," ","i","n","c","i","d","e","n","t"," ","d","a","t","e"," ","f","o","r","m","a","t",":"," ">> \o incident_date >>
       ELSE <<>>

\* float() of an int beyond the range of a double raises OverflowError, which
\* the except clause (ValueError, TypeError) does not catch.
ValidateRaises(e) == FloatOf(e["estimated_damage"]).t = "OverflowError"

\* The pair (missing, errors) validate returns.
validate(e) ==
  [missing |-> MissingFrom(e, 1),
   errors |-> EmailErrors(e) \o DamageErrors(e) \o DateErrors(e)]

(***************************************************************************)
(* ClaimClassifier.classify                                                *)
(***************************************************************************)
\* classify with the property rule tried before the automobile rule.
classifyPropertyFirst(e) ==
  LET asset_type == Lower(e["asset_type"].s)
      description == Lower(e["description"].s)
  IN IF \/ Contains(<<"p","r","o","p","e","r","t","y">>, asset_type)
        \/ Contains(<<"b","u","i","l","d","i","n","g">>, asset_type)
        \/ Contains(<<"h","o","m","e">>, asset_type)
       THEN "property"
     ELSE IF \/ Contains(<<"v","e","h","i","c","l","e">>, asset_type)
             \/ Contains(<<"c","a","r">>, asset_type)
             \/ Contains(<<"a","u","t","o">>, description)
       THEN "automobile"
     ELSE IF Contains(<<"l","i","a","b","i","l","i","t","y">>, description)
       THEN "liability"
     ELSE "general"

classify(e) ==
  LET asset_type == Lower(e["asset_type"].s)
      description == Lower(e["description"].s)
  IN IF \/ Contains(<<"v","e","h","i","c","l","e">>, asset_type)
        \/ Contains(<<"c","a","r">>, asset_type)
        \/ Contains(<<"a","u","t","o">>, description)
       THEN "automobile"
     ELSE IF \/ Contains(<<"p","r","o","p","e","r","t","y">>, asset_type)
             \/ Contains(<<"b","u","i","l","d","i","n","g">>, asset_type)
             \/ Contains(<<"h","o","m","e">>, asset_type)
       THEN "property"
     ELSE IF Contains(<<"l","i","a","b","i","l","i","t","y">>, description)
       THEN "liability"
     ELSE "general"

(***************************************************************************)
(* RoutingEngine.route                                                     *)
(***************************************************************************)
RISK_KEYWORDS == << <<"f","r","a","u","d">>, <<"s","t","a","g","e","d">>, <<"i","n","c","o","n","s","i","s","t","e","n","t">>, <<"s","u","s","p","i","c","i","o","u","s">>, <<"u","n","c","l","e","a","r">> >>

FAST_TRACK_THRESHOLD == 25000

\* The position of the first occurrence of sub in s (0 when absent).
FirstIndex(sub, s) ==
  LET at == {i \in 1..(Len(s) - Len(sub) + 1) : SubSeq(s, i, i + Len(sub) - 1) = sub}
  IN IF at = {} THEN 0 ELSE CHOOSE i \in at : \A j \in at : i <= j

\* FirstKeyword reporting the keyword that occurs earliest in the text.
FirstKeywordInText(description) ==
  LET hits == {i \in 1..Len(RISK_KEYWORDS) : Contains(RISK_KEYWORDS[i], description)}
  IN IF hits = {} THEN 0
     ELSE CHOOSE i \in hits : \A j \in hits :
            FirstIndex(RISK_KEYWORDS[i], description)
              <= FirstIndex(RISK_KEYWORDS[j], description)

\* for keyword in self.RISK_KEYWORDS: the first keyword, in list order, that
\* the description contains; 0 when the loop ends without a match.
FirstKeyword(description) ==
  LET hits == {i \in 1..Len(RISK_KEYWORDS) : Contains(RISK_KEYWORDS[i], description)}
  IN IF hits = {} THEN 0 ELSE CHOOSE i \in hits : \A j \in hits : i <= j

\* route comparing damage >= threshold.
routeAtThreshold(e, missing, errors, ctype) ==
  LET damage == FloatOf(e["estimated_damage"])
      description == Lower(e["description"].s)
      k == FirstKeyword(description)
  IN IF missing # <<>>
       THEN [decision |-> "manual-review", flags |-> << <<"m","i","s","s","i","n","g","_","m","a","n","d","a","t","o","r","y","_","f","i","e","l","d","s">> >>]
     ELSE IF errors # <<>>
       THEN [decision |-> "manual-review", flags |-> << <<"v","a","l","i","d","a","t","i","o","n","_","e","r","r","o","r","s">> >>]
     ELSE IF IsException(damage)
       THEN [decision |-> "manual-review", flags |-> <<>>]
     ELSE IF FloatGreater(damage, FAST_TRACK_THRESHOLD)
             \/ damage = PyFloat(100 * FAST_TRACK_THRESHOLD)
       THEN [decision |-> "manual-review",
             flags |-> << <<"h","i","g","h","_","d","a","m","a","g","e","_","a","m","o","u","n","t"," ","(">> \o FloatRepr(damage) \o <<")">> >>]
     ELSE IF k # 0
       THEN [decision |-> "investigation-flag",
             flags |-> << <<"r","i","s","k","_","k","e","y","w","o","r","d","_","d","e","t","e","c","t","e","d",":"," ">> \o RISK_KEYWORDS[k] >>]
     ELSE [decision |-> "fast-track", flags |-> <<>>]

\* route testing validation errors before missing fields.
routeErrorsFirst(e, missing, errors, ctype) ==
  LET damage == FloatOf(e["estimated_damage"])
      description == Lower(e["description"].s)
      k == FirstKeyword(description)
  IN IF errors # <<>>
       THEN [decision |-> "manual-review", flags |-> << <<"v","a","l","i","d","a","t","i","o","n","_","e","r","r","o","r","s">> >>]
     ELSE IF missing # <<>>
       THEN [decision |-> "manual-review", flags |-> << <<"m","i","s","s","i","n","g","_","m","a","n","d","a","t","o","r","y","_","f","i","e","l","d","s">> >>]
     ELSE IF IsException(damage)
       THEN [decision |-> "manual-review", flags |-> <<>>]
     ELSE IF FloatGreater(damage, FAST_TRACK_THRESHOLD)
       THEN [decision |-> "manual-review",
             flags |-> << <<"h","i","g","h","_","d","a","m","a","g","e","_","a","m","o","u","n","t"," ","(">> \o FloatRepr(damage) \o <<")">> >>]
     ELSE IF k # 0
       THEN [decision |-> "investigation-flag",
             flags |-> << <<"r","i","s","k","_","k","e","y","w","o","r","d","_","d","e","t","e","c","t","e","d",":"," ">> \o RISK_KEYWORDS[k] >>]
     ELSE [decision |-> "fast-track", flags |-> <<>>]

\* The pair (routing decision, risk flags) route returns.
route(e, missing, errors, ctype) ==
  LET damage == FloatOf(e["estimated_damage"])
      description == Lower(e["description"].s)
      k == FirstKeyword(description)
  IN IF missing # <<>>
       THEN [decision |-> "manual-review", flags |-> << <<"m","i","s","s","i","n","g","_","m","a","n","d","a","t","o","r","y","_","f","i","e","l","d","s">> >>]
     ELSE IF errors # <<>>
       THEN [decision |-> "manual-review", flags |-> << <<"v","a","l","i","d","a","t","i","o","n","_","e","r","r","o","r","s">> >>]
     ELSE IF IsException(damage)
       THEN [decision |-> "manual-review", flags |-> <<>>]
     ELSE IF FloatGreater(damage, FAST_TRACK_THRESHOLD)
       THEN [decision |-> "manual-review",
             flags |-> << <<"h","i","g","h","_","d","a","m","a","g","e","_","a","m","o","u","n","t"," ","(">> \o FloatRepr(damage) \o <<")">> >>]
     ELSE IF k # 0
       THEN [decision |-> "investigation-flag",
             flags |-> << <<"r","i","s","k","_","k","e","y","w","o","r","d","_","d","e","t","e","c","t","e","d",":"," ">> \o RISK_KEYWORDS[k] >>]
     ELSE [decision |-> "fast-track", flags |-> <<>>]

(***************************************************************************)
(* FNOLProcessor._generate_reasoning                                       *)
(***************************************************************************)
FastTrackSentence ==
  <<"A","l","l"," ","m","a","n","d","a","t","o","r","y"," ","f","i","e","l","d","s"," ","p","r","e","s","e","n","t"," ","w","i","t","h"," ","c","l","e","a","n"," ","v","a","l","i","d","a","t","i","o","n"," ","-"," ","r","o","u","t","e","d"," ","t","o"," ","f","a","s","t","-","t","r","a","c","k"," ","p","r","o","c","e","s","s","i","n","g",".">>

ManualReviewSentence ==
  <<"M","a","n","u","a","l"," ","r","e","v","i","e","w"," ","r","e","q","u","i","r","e","d"," ","d","u","e"," ","t","o"," ","m","i","s","s","i","n","g","/","i","n","c","o","n","s","i","s","t","e","n","t"," ","d","a","t","a"," ","o","r"," ","r","i","s","k"," ","i","n","d","i","c","a","t","o","r","s",".">>

FallbackText == <<"C","l","a","i","m"," ","r","e","a","d","y"," ","f","o","r"," ","p","r","o","c","e","s","s","i","n","g",".">>

\* A field name as Python text.
NameText(name) ==
  CASE name = "policy_number" -> <<"p","o","l","i","c","y","_","n","u","m","b","e","r">>
    [] name = "carrier" -> <<"c","a","r","r","i","e","r">>
    [] name = "incident_date" -> <<"i","n","c","i","d","e","n","t","_","d","a","t","e">>
    [] name = "location" -> <<"l","o","c","a","t","i","o","n">>
    [] name = "insured_name" -> <<"i","n","s","u","r","e","d","_","n","a","m","e">>
    [] name = "contact_email" -> <<"c","o","n","t","a","c","t","_","e","m","a","i","l">>
    [] name = "description" -> <<"d","e","s","c","r","i","p","t","i","o","n">>
    [] OTHER -> <<"e","s","t","i","m","a","t","e","d","_","d","a","m","a","g","e">>

\* _generate_reasoning that appends a closing sentence for fast-track only.
_generate_reasoningNoElse(missing, errors, decision, flags) ==
  LET r1 == IF missing # <<>>
              THEN << <<"M","i","s","s","i","n","g"," ","f","i","e","l","d","s"," ","d","e","t","e","c","t","e","d",":"," ">>
                      \o Join(<<","," ">>, [i \in 1..Len(missing) |-> NameText(missing[i])])
                      \o <<".">> >>
              ELSE <<>>
      r2 == IF errors # <<>>
              THEN << <<"V","a","l","i","d","a","t","i","o","n"," ","i","s","s","u","e","s",":"," ">> \o Join(<<";"," ">>, errors) \o <<".">> >>
              ELSE <<>>
      r3 == IF flags # <<>>
              THEN << <<"R","i","s","k"," ","i","n","d","i","c","a","t","o","r","s"," ","f","l","a","g","g","e","d",":"," ">> \o Join(<<","," ">>, flags) \o <<".">> >>
              ELSE <<>>
      r4 == IF decision = "fast-track" THEN << FastTrackSentence >> ELSE <<>>
      reasons == r1 \o r2 \o r3 \o r4
  IN IF reasons # <<>> THEN Join(<<" ">>, reasons) ELSE FallbackText

_generate_reasoning(missing, errors, decision, flags) ==
  LET r1 == IF missing # <<>>
              THEN << <<"M","i","s","s","i","n","g"," ","f","i","e","l","d","s"," ","d","e","t","e","c","t","e","d",":"," ">>
                      \o Join(<<","," ">>, [i \in 1..Len(missing) |-> NameText(missing[i])])
                      \o <<".">> >>
              ELSE <<>>
      r2 == IF errors # <<>>
              THEN << <<"V","a","l","i","d","a","t","i","o","n"," ","i","s","s","u","e","s",":"," ">> \o Join(<<";"," ">>, errors) \o <<".">> >>
              ELSE <<>>
      r3 == IF flags # <<>>
              THEN << <<"R","i","s","k"," ","i","n","d","i","c","a","t","o","r","s"," ","f","l","a","g","g","e","d",":"," ">> \o Join(<<","," ">>, flags) \o <<".">> >>
              ELSE <<>>
      r4 == IF decision = "fast-track"
              THEN << FastTrackSentence >>
              ELSE << ManualReviewSentence >>
      reasons == r1 \o r2 \o r3 \o r4
  IN IF reasons # <<>> THEN Join(<<" ">>, reasons) ELSE FallbackText

(***************************************************************************)
(* Input records.                                                          *)
(***************************************************************************)
\* The sample record of the module's example usage; the other keys are absent.
sample_fnol ==
  [key \in Keys |->
     CASE key = "policy_number" -> PyStr(<<"P","O","L","-","2","0","2","5","-","0","0","1","2","3","4">>)
       [] key = "carrier" -> PyStr(<<"A","B","C"," ","I","n","s","u","r","a","n","c","e">>)
       [] key = "incident_date" -> PyStr(<<"2","0","2","5","-","1","2","-","1","0">>)
       [] key = "location" -> PyStr(<<"H","y","d","e","r","a","b","a","d",","," ","I","n","d","i","a">>)
       [] key = "insured_name" -> PyStr(<<"J","o","h","n"," ","D","o","e">>)
       [] key = "contact_email" -> PyStr(<<"j","o","h","n","@","e","x","a","m","p","l","e",".","c","o","m">>)
       [] key = "description" -> PyStr(<<"M","i","n","o","r"," ","v","e","h","i","c","l","e"," ","c","o","l","l","i","s","i","o","n">>)
       [] key = "estimated_damage" -> PyInt(15000)
       [] key = "asset_type" -> PyStr(<<"v","e","h","i","c","l","e">>)
       [] OTHER -> Absent]

\* Words the explored descriptions are made of: the five keywords the router
\* scans for (one capitalised), the sixth keyword of FNOLProcessor.RISK_KEYWORDS,
\* and a neutral word.
Words == { <<"f","r","a","u","d">>, <<"s","t","a","g","e","d">>, <<"i","n","c","o","n","s","i","s","t","e","n","t">>, <<"s","u","s","p","i","c","i","o","u","s">>, <<"U","n","c","l","e","a","r">>,
           <<"m","i","s","s","i","n","g">>, <<"m","i","n","o","r">> }

\* Every description of at most MaxWords words, joined by single spaces.
Descriptions ==
  {Join(<<" ">>, w) : w \in UNION {[1..n -> Words] : n \in 0..MaxWords}}

\* Values of estimated_damage: absent, ints, floats, numeric and non-numeric
\* text, lists.
DamagePool ==
  {Absent, PyInt(0), PyInt(15000), PyInt(25000), PyFloat(2500001), PyInt(30000),
   PyInt(0 - 500), PyStr(<<"a","b","c">>), PyStr(<<" ","2","5","0","0","0",".","0","1"," ">>), PyStr(<<"n","a","n">>), Inf,
   PyList(<< <<"3","0","0","0","0">> >>), BigInt}

\* Values of any one key: absent, empty, blank and padded text, numbers, lists.
KindPool ==
  {Absent, PyStr(<<>>), PyStr(<<" "," ">>), PyStr(<<" ","\t","p","a","d","d","e","d"," ","t","e","x","t"," ","\\","n">>), PyStr(<<"n","o","t","-","a","-","l","i","s","t">>),
   PyInt(12345), PyInt(0), PyFloat(1250), PyList(<<>>),
   PyList(<< <<"p","h","o","t","o","1",".","j","p","g">>, <<"r","e","p","o","r","t",".","p","d","f">> >>)}

AssetPool ==
  {Absent, PyStr(<<>>), PyStr(<<"V","e","h","i","c","l","e"," ","S","U","V">>), PyStr(<<"O","f","f","i","c","e"," ","B","u","i","l","d","i","n","g">>),
   PyStr(<<"C","A","R">>), PyStr(<<"C","a","r","p","e","t">>), PyStr(<<"H","o","m","e"," ","c","o","n","t","e","n","t","s">>),
   PyStr(<<"R","e","n","t","a","l"," ","P","r","o","p","e","r","t","y">>), PyStr(<<"b","o","a","t">>)}

ClassDescPool ==
  {Absent, PyStr(<<"d","i","s","p","u","t","e"," ","o","v","e","r"," ","l","i","a","b","i","l","i","t","y">>), PyStr(<<"A","U","T","O"," ","a","c","c","i","d","e","n","t">>),
   PyStr(<<"L","i","a","b","i","l","i","t","y"," ","o","f"," ","a","n"," ","a","u","t","o","m","o","b","i","l","e"," ","o","w","n","e","r">>), PyStr(<<"M","i","n","o","r"," ","c","o","l","l","i","s","i","o","n">>),
   PyStr(<<"w","a","t","e","r"," ","d","a","m","a","g","e">>)}

DatePool ==
  {PyStr(<<"2","0","2","5","-","1","2","-","1","0">>), PyStr(<<"1","0","-","1","2","-","2","0","2","5">>), PyStr(<<"1","0","/","1","2","/","2","0","2","5">>),
   PyStr(<<"2","0","2","5","/","1","2","/","1","0">>), PyStr(<<"2","0","2","5","-","0","2","-","3","0">>), PyStr(<<"2","9","-","0","2","-","2","0","2","4">>),
   PyStr(<<"2","9","/","0","2","/","2","0","2","3">>), PyStr(<<"2","0","2","5","-","1","3","-","0","1">>), PyStr(<<"1","2","/","1","0","/","2","5">>),
   PyStr(<<"1","0"," ","D","e","c"," ","2","0","2","5">>), PyStr(<<"2","0","2","5","-","1","-","5">>), PyStr(<<"0","0","0","0","-","0","1","-","0","1">>),
   PyStr(<<"2","0","2","5","-","1","2","-","1","0","T","0","8",":","0","0">>), PyStr(<<"2","0","2","5","/","1","2","-","1","0">>)}

EmailPool ==
  {PyStr(<<"j","o","h","n","@","e","x","a","m","p","l","e",".","c","o","m">>), PyStr(<<"n","o","t","-","a","n","-","e","m","a","i","l">>), PyStr(<<"a","@","b",".","c">>),
   PyStr(<<"a",".","b","+","c","@","d","-","e",".","c","o",".","u","k">>), PyStr(<<"@","e","x","a","m","p","l","e",".","c","o","m">>), PyStr(<<"j","o","h","n","@","e","x","a","m","p","l","e">>),
   PyStr(<<"j","o","h","n","@","@","e","x","a","m","p","l","e",".","c","o","m">>), PyStr(<<"j","o","h","n","@","e","x","a","m","p","l","e",".","c","0","m">>),
   PyStr(<<" ","j","o","h","n","@","e","x","a","m","p","l","e",".","c","o","m"," ">>), PyStr(<<"j","o","h","n"," ","d","o","e","@","e","x","a","m","p","l","e",".","c","o","m">>)}

\* Records that vary the inputs of the router together.
RoutingRecords ==
  {[sample_fnol EXCEPT !["description"] = PyStr(d), !["estimated_damage"] = dmg,
                       !["policy_number"] = p, !["contact_email"] = m] :
     d \in Descriptions, dmg \in DamagePool,
     p \in {sample_fnol["policy_number"], Absent},
     m \in {sample_fnol["contact_email"], PyStr(<<"n","o","t","-","a","n","-","e","m","a","i","l">>)}}

\* Records that differ from the sample in one key.
OneKeyRecords == {[sample_fnol EXCEPT ![key] = v] : key \in Keys, v \in KindPool}

\* Records that vary the inputs of the classifier together.
ClassifierRecords ==
  {[sample_fnol EXCEPT !["asset_type"] = a, !["description"] = d] :
     a \in AssetPool, d \in ClassDescPool}

\* Records that vary the incident date and the e-mail address.
DateEmailRecords ==
  {[sample_fnol EXCEPT !["incident_date"] = dt, !["contact_email"] = m] :
     dt \in DatePool, m \in EmailPool}

InputRecords ==
  RoutingRecords \cup OneKeyRecords \cup ClassifierRecords \cup DateEmailRecords

(***************************************************************************)
(* FNOLProcessor.process_fnol, one action per stage.                       *)
(***************************************************************************)
\* The value of a local that is not assigned yet.
None == [t |-> "None"]

Init ==
  /\ fnol_data \in InputRecords
  /\ pc = "extract"
  /\ extracted_fields = None
  /\ missing_fields = <<>>
  /\ validation_errors = <<>>
  /\ claim_type = "None"
  /\ routing_decision = "None"
  /\ risk_flags = <<>>
  /\ reasoning = <<>>
  /\ result = None
  /\ raised = "None"

\* extracted_fields = self.field_extractor.extract(fnol_data)
Extract ==
  /\ pc = "extract"
  /\ IF ExtractRaises(fnol_data)
       THEN /\ raised' = "AttributeError"
            /\ pc' = "raised"
            /\ UNCHANGED extracted_fields
       ELSE /\ extracted_fields' = extract(fnol_data)
            /\ pc' = "validate"
            /\ UNCHANGED raised
  /\ UNCHANGED <<fnol_data, missing_fields, validation_errors, claim_type,
                 routing_decision, risk_flags, reasoning, result>>

\* missing_fields, validation_errors = self.validator.validate(extracted_fields)
Validate ==
  /\ pc = "validate"
  /\ IF ValidateRaises(extracted_fields)
       THEN /\ raised' = "OverflowError"
            /\ pc' = "raised"
            /\ UNCHANGED <<missing_fields, validation_errors>>
       ELSE /\ missing_fields' = validate(extracted_fields).missing
            /\ validation_errors' = validate(extracted_fields).errors
            /\ pc' = "classify"
            /\ UNCHANGED raised
  /\ UNCHANGED <<fnol_data, extracted_fields, claim_type, routing_decision,
                 risk_flags, reasoning, result>>

\* claim_type = self.classifier.classify(extracted_fields, fnol_data)
Classify ==
  /\ pc = "classify"
  /\ claim_type' = classify(extracted_fields)
  /\ pc' = "route"
  /\ UNCHANGED <<fnol_data, extracted_fields, missing_fields, validation_errors,
                 routing_decision, risk_flags, reasoning, result, raised>>

\* routing_decision, risk_flags = self.router.route(...)
Route ==
  /\ pc = "route"
  /\ LET r == route(extracted_fields, missing_fields, validation_errors, claim_type)
     IN /\ routing_decision' = r.decision
        /\ risk_flags' = r.flags
  /\ pc' = "reason"
  /\ UNCHANGED <<fnol_data, extracted_fields, missing_fields, validation_errors,
                 claim_type, reasoning, result, raised>>

\* reasoning = self._generate_reasoning(...)
GenerateReasoning ==
  /\ pc = "reason"
  /\ reasoning' = _generate_reasoning(missing_fields, validation_errors,
                                      routing_decision, risk_flags)
  /\ pc' = "compile"
  /\ UNCHANGED <<fnol_data, extracted_fields, missing_fields, validation_errors,
                 claim_type, routing_decision, risk_flags, result, raised>>

\* result = {...}; return result.  datetime.now() is any clock reading.
Compile ==
  /\ pc = "compile"
  /\ \E now \in 1..MaxClock :
       result' = [extracted_fields |-> extracted_fields,
                  missing_fields |-> missing_fields,
                  validation_errors |-> validation_errors,
                  claim_type |-> claim_type,
                  routing |-> routing_decision,
                  risk_flags |-> risk_flags,
                  reasoning |-> reasoning,
                  processed_at |-> now]
  /\ pc' = "done"
  /\ UNCHANGED <<fnol_data, extracted_fields, missing_fields, validation_errors,
                 claim_type, routing_decision, risk_flags, reasoning, raised>>

Next == Extract \/ Validate \/ Classify \/ Route \/ GenerateReasoning \/ Compile

Spec == Init /\ [][Next]_vars

(***************************************************************************)
(* _generate_reasoning called on its own, on any argument lists.           *)
(***************************************************************************)
MissingPool ==
  {<<>>, <<"carrier">>, <<"policy_number", "estimated_damage">>}

ErrorsPool ==
  {<<>>, << <<"E","s","t","i","m","a","t","e","d"," ","d","a","m","a","g","e"," ","m","u","s","t"," ","b","e"," ","a"," ","n","u","m","b","e","r">> >>,
   << <<"I","n","v","a","l","i","d"," ","e","m","a","i","l"," ","f","o","r","m","a","t",":"," ","n","o","t","-","a","n","-","e","m","a","i","l">>, <<"E","s","t","i","m","a","t","e","d"," ","d","a","m","a","g","e"," ","c","a","n","n","o","t"," ","b","e"," ","n","e","g","a","t","i","v","e">> >>}

FlagsPool ==
  {<<>>, << <<"v","a","l","i","d","a","t","i","o","n","_","e","r","r","o","r","s">> >>, << <<"r","i","s","k","_","k","e","y","w","o","r","d","_","d","e","t","e","c","t","e","d",":"," ","f","r","a","u","d">> >>,
   << <<"m","i","s","s","i","n","g","_","m","a","n","d","a","t","o","r","y","_","f","i","e","l","d","s">>, <<"h","i","g","h","_","d","a","m","a","g","e","_","a","m","o","u","n","t"," ","(","3","0","0","0","0",".","0",")">> >>}

Decisions == {"fast-track", "manual-review", "investigation-flag"}

InitReasoning ==
  /\ fnol_data = sample_fnol
  /\ pc = "reason"
  /\ extracted_fields = None
  /\ missing_fields \in MissingPool
  /\ validation_errors \in ErrorsPool
  /\ claim_type = "None"
  /\ routing_decision \in Decisions
  /\ risk_flags \in FlagsPool
  /\ reasoning = <<>>
  /\ result = None
  /\ raised = "None"

NextReasoning == GenerateReasoning

SpecReasoning == InitReasoning /\ [][NextReasoning]_vars

(***************************************************************************)
(* Properties.                                                             *)
(***************************************************************************)
\* p is a prefix of s.
StartsWith(s, p) == Len(s) >= Len(p) /\ SubSeq(s, 1, Len(p)) = p

\* p is a suffix of s.
EndsWith(s, p) == Len(s) >= Len(p) /\ SubSeq(s, Len(s) - Len(p) + 1, Len(s)) = p

\* validate has returned.
Validated == pc \in {"classify", "route", "reason", "compile", "done"}

\* classify has returned.
Classified == pc \in {"route", "reason", "compile", "done"}

\* route has returned.
Routed == pc \in {"reason", "compile", "done"}

\* The float the router compares: float(extracted_fields['estimated_damage']).
DamageValue == FloatOf(extracted_fields["estimated_damage"])

\* The lower-cased description the router scans.
DescriptionLower == Lower(extracted_fields["description"].s)

\* f <= n for a float f and an int n (False for nan).
FloatAtMost(f, n) == (f.t = "float" /\ f.c <= 100 * n) \/ f.t = "ninf"

\* The description contains none of the five keywords.
NoKeyword ==
  /\ ~Contains(<<"f","r","a","u","d">>, DescriptionLower)
  /\ ~Contains(<<"s","t","a","g","e","d">>, DescriptionLower)
  /\ ~Contains(<<"i","n","c","o","n","s","i","s","t","e","n","t">>, DescriptionLower)
  /\ ~Contains(<<"s","u","s","p","i","c","i","o","u","s">>, DescriptionLower)
  /\ ~Contains(<<"u","n","c","l","e","a","r">>, DescriptionLower)

\* Some risk flag begins with high_damage_amount.
HighDamageFlagged ==
  \E i \in 1..Len(risk_flags) : StartsWith(risk_flags[i], <<"h","i","g","h","_","d","a","m","a","g","e","_","a","m","o","u","n","t">>)

\* C1: process_fnol never raises on a record of strings, numbers and lists,
\* and every result's routing is one of the three decisions.
C1_NeverRaises ==
  /\ pc # "raised"
  /\ pc = "done" =>
       result.routing \in {"fast-track", "manual-review", "investigation-flag"}

\* A mandatory field of the input is present and valid: non-blank text, a
\* well-formed e-mail address and date, a positive finite damage.
PresentAndValid(d, field) ==
  IF field = "estimated_damage"
    THEN /\ d[field].t \in {"int", "float", "str"}
         /\ FloatOf(d[field]).t = "float"
         /\ FloatOf(d[field]).c > 0
    ELSE /\ d[field].t = "str"
         /\ Strip(d[field].s) # <<>>
         /\ field = "contact_email" => _is_valid_email(Strip(d[field].s))
         /\ field = "incident_date" => _is_valid_date(Strip(d[field].s))

\* The input omits mandatory field number i and holds the other seven, valid.
OmitsOnly(i) ==
  /\ fnol_data[MANDATORY_FIELDS[i]] = Absent
  /\ \A j \in 1..Len(MANDATORY_FIELDS) :
       j # i => PresentAndValid(fnol_data, MANDATORY_FIELDS[j])

\* C2: a result for a record that omits exactly one mandatory field, the
\* other seven being present and valid, has missing_fields equal to the list
\* of that one field and routing manual-review.
C2_OneOmitted ==
  pc = "done" =>
    \A i \in 1..Len(MANDATORY_FIELDS) :
      OmitsOnly(i) =>
        /\ result.missing_fields = <<MANDATORY_FIELDS[i]>>
        /\ result.routing = "manual-review"

\* C2 witness: a result for a record that omits only estimated_damage.
C2_Witness ==
  /\ pc = "done"
  /\ OmitsOnly(8)
  /\ result.missing_fields = <<"estimated_damage">>

\* C3: a result is fast-track exactly when nothing is missing, nothing is
\* invalid, the damage is at most 25000 and the description holds none of
\* the five keywords; and a fast-track result has no risk flags.
C3_FastTrackIff ==
  pc = "done" =>
    /\ result.routing = "fast-track" <=>
         /\ result.missing_fields = <<>>
         /\ result.validation_errors = <<>>
         /\ FloatAtMost(DamageValue, 25000)
         /\ NoKeyword
    /\ result.routing = "fast-track" => result.risk_flags = <<>>

\* The damage is strictly above 25000 (2500000 hundredths).
DamageAbove == (DamageValue.t = "float" /\ DamageValue.c > 2500000) \/ DamageValue.t = "inf"

\* C4: with nothing missing and nothing invalid, the high-damage branch is
\* taken exactly when the damage is strictly above 25000: at exactly 25000
\* there is no high_damage_amount flag and the keyword scan decides, above it
\* the result is manual-review with the one flag high_damage_amount (...),
\* whatever the description holds.
C4_StrictThreshold ==
  (Routed /\ missing_fields = <<>> /\ validation_errors = <<>>) =>
    /\ HighDamageFlagged <=> DamageAbove
    /\ DamageValue = PyFloat(2500000) =>
         /\ ~HighDamageFlagged
         /\ routing_decision = (IF NoKeyword THEN "fast-track" ELSE "investigation-flag")
    /\ DamageAbove =>
         /\ routing_decision = "manual-review"
         /\ Len(risk_flags) = 1
         /\ StartsWith(risk_flags[1], <<"h","i","g","h","_","d","a","m","a","g","e","_","a","m","o","u","n","t">>)

\* C4 witness: a damage of 25000.01 with a keyword in the description is
\* flagged high_damage_amount (25000.01).
C4_Witness ==
  /\ Routed
  /\ missing_fields = <<>> /\ validation_errors = <<>>
  /\ DamageValue = PyFloat(2500001)
  /\ ~NoKeyword
  /\ risk_flags = << <<"h","i","g","h","_","d","a","m","a","g","e","_","a","m","o","u","n","t"," ","(","2","5","0","0","0",".","0","1",")">> >>

\* C5: with nothing missing, nothing invalid and a damage of at most 25000,
\* a description holding a keyword is routed investigation-flag with exactly
\* one flag, naming the keyword earliest in the list order among those present.
C5_FirstKeywordInListOrder ==
  (Routed /\ missing_fields = <<>> /\ validation_errors = <<>>
     /\ FloatAtMost(DamageValue, 25000)) =>
    \A i \in 1..Len(RISK_KEYWORDS) :
      (/\ Contains(RISK_KEYWORDS[i], DescriptionLower)
       /\ \A j \in 1..(i - 1) : ~Contains(RISK_KEYWORDS[j], DescriptionLower)) =>
        /\ routing_decision = "investigation-flag"
        /\ risk_flags = << <<"r","i","s","k","_","k","e","y","w","o","r","d","_","d","e","t","e","c","t","e","d",":"," ">> \o RISK_KEYWORDS[i] >>

\* C5 witness: 'suspicious staged' reports staged.
C5_Witness ==
  /\ Routed
  /\ extracted_fields["description"] = PyStr(<<"s","u","s","p","i","c","i","o","u","s"," ","s","t","a","g","e","d">>)
  /\ routing_decision = "investigation-flag"
  /\ risk_flags = << <<"r","i","s","k","_","k","e","y","w","o","r","d","_","d","e","t","e","c","t","e","d",":"," ","s","t","a","g","e","d">> >>

\* C6: a non-empty missing list gives manual-review with the one flag
\* missing_mandatory_fields, whatever else holds; and the flags are exactly
\* [validation_errors] precisely when nothing is missing and something is
\* invalid, with manual-review.
C6_Priority ==
  Routed =>
    /\ missing_fields # <<>> =>
         /\ routing_decision = "manual-review"
         /\ risk_flags = << <<"m","i","s","s","i","n","g","_","m","a","n","d","a","t","o","r","y","_","f","i","e","l","d","s">> >>
    /\ risk_flags = << <<"v","a","l","i","d","a","t","i","o","n","_","e","r","r","o","r","s">> >> <=>
         (missing_fields = <<>> /\ validation_errors # <<>>)
    /\ risk_flags = << <<"v","a","l","i","d","a","t","i","o","n","_","e","r","r","o","r","s">> >> => routing_decision = "manual-review"

\* C6 witness: a field is missing, a value is invalid, the damage is above
\* 25000 and the description holds a keyword, all at once.
C6_Witness ==
  /\ Routed
  /\ missing_fields # <<>>
  /\ validation_errors # <<>>
  /\ DamageAbove
  /\ ~NoKeyword
  /\ risk_flags = << <<"m","i","s","s","i","n","g","_","m","a","n","d","a","t","o","r","y","_","f","i","e","l","d","s">> >>

\* The lower-cased asset type the classifier reads.
AssetLower == Lower(extracted_fields["asset_type"].s)

AutomobileRule ==
  \/ Contains(<<"v","e","h","i","c","l","e">>, AssetLower)
  \/ Contains(<<"c","a","r">>, AssetLower)
  \/ Contains(<<"a","u","t","o">>, DescriptionLower)

PropertyRule ==
  \/ Contains(<<"p","r","o","p","e","r","t","y">>, AssetLower)
  \/ Contains(<<"b","u","i","l","d","i","n","g">>, AssetLower)
  \/ Contains(<<"h","o","m","e">>, AssetLower)

LiabilityRule == Contains(<<"l","i","a","b","i","l","i","t","y">>, DescriptionLower)

\* C7: the claim type is one of the four types, chosen by the first rule
\* that matches, case-insensitively: automobile, else property, else
\* liability, else general.
C7_FirstRuleWins ==
  Classified =>
    /\ claim_type \in {"automobile", "property", "liability", "general"}
    /\ claim_type = "automobile" <=> AutomobileRule
    /\ claim_type = "property" <=> (~AutomobileRule /\ PropertyRule)
    /\ claim_type = "liability" <=> (~AutomobileRule /\ ~PropertyRule /\ LiabilityRule)
    /\ claim_type = "general" <=> (~AutomobileRule /\ ~PropertyRule /\ ~LiabilityRule)

\* C7 witness: asset type 'Office Building' with an 'AUTO ...' description
\* is automobile.
C7_Witness ==
  /\ Classified
  /\ extracted_fields["asset_type"] = PyStr(<<"O","f","f","i","c","e"," ","B","u","i","l","d","i","n","g">>)
  /\ extracted_fields["description"] = PyStr(<<"A","U","T","O"," ","a","c","c","i","d","e","n","t">>)
  /\ claim_type = "automobile"

\* extract has returned.
Extracted == pc \in {"validate", "classify", "route", "reason", "compile", "done"}

\* estimated_damage is 0 when absent; attachments is [] when absent or not a list.
DefaultsOfTheOthers ==
  /\ DOMAIN extracted_fields = Keys
  /\ fnol_data["estimated_damage"] = Absent =>
       extracted_fields["estimated_damage"] = PyInt(0)
  /\ fnol_data["attachments"].t # "list" =>
       extracted_fields["attachments"] = PyList(<<>>)

Reasoned == pc \in {"compile", "done"}

NothingTriggered ==
  missing_fields = <<>> /\ validation_errors = <<>> /\ risk_flags = <<>>

\* A fast-track decision gives a non-empty text that ends with the
\* fast-track closing sentence.
FastTrackCloses ==
  routing_decision = "fast-track" =>
    /\ reasoning # <<>>
    /\ EndsWith(reasoning, FastTrackSentence)

\* C9 as stated: with three empty lists and a decision other than
\* fast-track the text is 'Claim ready for processing.'.
C9_FallbackReturned ==
  Reasoned =>
    /\ (NothingTriggered /\ routing_decision # "fast-track") => reasoning = FallbackText
    /\ FastTrackCloses

\* C9 amended: with three empty lists and a decision other than fast-track
\* the text is the manual-review closing sentence alone, and the fallback
\* text is never returned; a fast-track decision gives a non-empty text
\* that ends with the fast-track closing sentence.
C9_ClosingSentenceAlways ==
  Reasoned =>
    /\ (NothingTriggered /\ routing_decision # "fast-track") =>
         reasoning = ManualReviewSentence
    /\ reasoning # FallbackText
    /\ FastTrackCloses

\* C9 witness: three empty lists and decision manual-review.
C9_Witness ==
  /\ Reasoned
  /\ NothingTriggered
  /\ routing_decision = "manual-review"
  /\ reasoning = ManualReviewSentence

\* C10: a damage that fails numeric coercion in the router has a 'must be a
\* number' validation error, so the router's fallback is never taken: every
\* manual-review or investigation-flag routing carries exactly one risk flag.
C10_FallbackUnreachable ==
  /\ Validated =>
       (IsException(DamageValue) =>
          \E i \in 1..Len(validation_errors) :
            validation_errors[i] = <<"E","s","t","i","m","a","t","e","d"," ","d","a","m","a","g","e"," ","m","u","s","t"," ","b","e"," ","a"," ","n","u","m","b","e","r">>)
  /\ Routed =>
       (routing_decision \in {"manual-review", "investigation-flag"} =>
          Len(risk_flags) = 1)
  /\ pc = "done" =>
       ~(result.routing = "manual-review" /\ result.risk_flags = <<>>)

\* C10 witness: a non-numeric damage, reported by the validator and routed
\* on the validation error.
C10_Witness ==
  /\ pc = "done"
  /\ result.missing_fields = <<>>
  /\ IsException(DamageValue)
  /\ result.validation_errors = << <<"E","s","t","i","m","a","t","e","d"," ","d","a","m","a","g","e"," ","m","u","s","t"," ","b","e"," ","a"," ","n","u","m","b","e","r">> >>
  /\ result.routing = "manual-review"
  /\ result.risk_flags = << <<"v","a","l","i","d","a","t","i","o","n","_","e","r","r","o","r","s">> >>

====
